---------------------------- MODULE Spec2Model ----------------------------
(***************************************************************************)
(* The bundling engine of tozh/shipper.                                    *)
(*                                                                         *)
(* The repository holds three pieces of code that the model follows:       *)
(*   sys = "ticket"  the Ticket type of common/bundler/ticket.go, built by *)
(*                   NewTicketer(limit) and driven by clients that follow  *)
(*                   the dispatch protocol of flushLocked (Next, then a    *)
(*                   goroutine doing Acquire, handle, Release) and by      *)
(*                   callers of WaitAll(WhatIsNext());                     *)
(*   sys = "item"    the Item-based Bundler (TryAdd / Add(ctx) / Flush,    *)
(*                   message.go lines 18-216), as NewBundler returns it;   *)
(*   sys = "inline"  the Bundler with the inline ticketer (Add / AddWait / *)
(*                   Flush, message.go lines 218-476).                     *)
(* The two Bundler types have the same fields, and the Ticket type has the *)
(* fields of the inline ticketer, so one set of variables holds the state  *)
(* of whichever program sys names; sys is fixed by Init.                   *)
(*                                                                         *)
(* Goroutines: the producers (callers of the public operations), one timer *)
(* goroutine per arming of the timer, one dispatch goroutine per ticket.   *)
(* Code between two blocking or racing operations is one atomic step.      *)
(*                                                                         *)
(* time.Timer is modelled with the semantics of the Go releases the code   *)
(* was written for (no go.mod asks for the Go 1.23 timer channels): the    *)
(* channel C has a buffer of one, a firing timer does a non-blocking send  *)
(* on it, Stop reports whether the timer was still armed, and neither Stop *)
(* nor Reset drains C.                                                     *)
(***************************************************************************)
EXTENDS Integers, Sequences, FiniteSets, TLC

\* ------------------------------------------------------------------ bounds
\* Admission calls (Add, AddWait, TryAdd, Add(ctx)) made in one run.
MaxAdds == 2
\* Tickets issued by the clients of a stand-alone Ticket (sys = "ticket").
MaxTickets == 3

\* ------------------------------------------------------------- goroutines
Producers == {1, 2}
Timers == {10 + i : i \in 1..MaxAdds}
Threads == Producers \cup Timers
Tickets == 0..((IF MaxAdds > MaxTickets THEN MaxAdds ELSE MaxTickets) - 1)

\* Sizes of the items the producers submit; 4 exceeds every BundleSizeLimit.
ItemSizes == {1, 3, 4}

\* The settings a run is configured with (the public fields of Bundler,
\* written after NewBundler and before the first admission).
Configs ==
  [HandlerLimit : {1, 2}, CountThreshold : {2}, SizeThreshold : {3},
   BundleSizeLimit : {3}, BufferSizeLimit : {4}]

VARIABLES
  sys,              \* which program runs: "ticket", "item" or "inline"
  CountThreshold, SizeThreshold, BundleSizeLimit, BufferSizeLimit, HandlerLimit,
  bundle,           \* b.bundle / b.items: sequence of [id, sz]
  size,             \* b.size
  timerRunning,     \* b.timerRunning
  timer,            \* b.timer: "nil", "armed", "expired" or "stopped"
  timerC,           \* values buffered in b.timer.C (0 or 1)
  mutex,            \* b.mutex: 0 when free, else the goroutine holding it
  sem,              \* b.sem: [init, cur, waiters]
  active, next, nextHandled,   \* the ticketer
  mutex4t,          \* the ticketer's mutex: "free" or "locked"
  ticketNil,        \* b.ticket = nil (Item-based Bundler)
  th,               \* producers and timer goroutines: [pc, id, sz, ret, t]
  disp,             \* dispatch goroutine of each ticket: its position
  sealed,           \* sealed[k+1]: the bundle and size captured for ticket k
  started,          \* history: tickets in the order their acquire completed
  admitted,         \* history: ids of the items whose admission returned nil
  nAdds,            \* admission calls made so far
  nItems,           \* items appended so far: an item's id is its rank
  crashed           \* "no", or the panic that ended the process

cfgvars == <<sys, CountThreshold, SizeThreshold, BundleSizeLimit, BufferSizeLimit,
             HandlerLimit>>
bvars == <<bundle, size, timerRunning>>
tmvars == <<timer, timerC>>
tkvars == <<active, next, nextHandled, mutex4t, ticketNil>>
hvars == <<started, admitted>>
vars == <<cfgvars, bvars, tmvars, tkvars, hvars, mutex, sem, th, disp, sealed,
          nAdds, nItems, crashed>>

\* --------------------------------------------------------------- helpers
RECURSIVE SumSz(_)
SumSz(s) == IF s = <<>> THEN 0 ELSE Head(s).sz + SumSz(Tail(s))

Ids(s) == {s[i].id : i \in 1..Len(s)}

\* math.MaxUint64, held in the largest integer TLC has: what matters is that
\* it is above every ticket.
MaxUint64 == 2147483647

\* min(s): the least element of s, or the largest uint64 if s is empty.
min(s) == IF s = {} THEN MaxUint64 ELSE CHOOSE m \in s : \A n \in s : m <= n

Idle == [pc |-> "idle", id |-> 0, sz |-> 0, ret |-> "", t |-> 0]
Unborn == [Idle EXCEPT !.pc = "unborn"]

\* Faulty variants of the predicates below: acquire without the turn check,
\* acquire without the limit check, waitAll without the look at active.
acquirePred_orLater(k, nh, act) == k >= nh /\ Cardinality(act) < HandlerLimit
acquirePred_anyTurn(k, nh, act) == Cardinality(act) < HandlerLimit
acquirePred_noLimit(k, nh, act) == k = nh
waitAllPred_noActive(n, nh, act) == nh >= n

\* The predicates the goroutines wait for in cond.Wait.
acquirePred(k, nh, act) == k = nh /\ Cardinality(act) < HandlerLimit
waitAllPred(n, nh, act) == nh >= n /\ n <= min(act)

\* sync.Cond.Broadcast, called with the ticketer's mutex held: every goroutine
\* asleep in Wait wakes, takes the mutex again and re-checks its predicate.
\* Both predicates, once true, stay true until the waiter itself proceeds, and
\* every step that changes nextHandled or active broadcasts; so a waiter that
\* would find its predicate false goes back to sleep with nothing changed,
\* and only the waiters whose predicate holds (nh and act being the new
\* nextHandled and active) are moved on to their re-check.
BroadcastDisp(d, nh, act) ==
  [k \in DOMAIN d |->
     IF d[k] = "acq_wait" /\ acquirePred(k, nh, act) THEN "acq_retry" ELSE d[k]]

BroadcastTh(f, nh, act) ==
  [x \in DOMAIN f |->
     IF f[x].pc = "wa_wait" /\ waitAllPred(f[x].t, nh, act)
     THEN [f[x] EXCEPT !.pc = "wa_retry"] ELSE f[x]]

Running == crashed = "no"

\* ------------------------------------------------------------------- Init
\* The field ticket of an Item-based Bundler when its first operation is
\* called: nil, as NewBundler leaves it, or a Ticket that code of the package
\* has built with NewTicketer(HandlerLimit) and stored in the unexported
\* field, without which lines 102-110 and 119-122 of message.go cannot run.
TicketFieldNil == {TRUE, FALSE}

\* The programs that use a Ticket: its stand-alone clients and an Item-based
\* Bundler that has one.
UsesTicket == sys = "ticket" \/ (sys = "item" /\ ~ticketNil)

\* NewTicketer(limit): an empty ticketer.
NewTicketer ==
  /\ active = {} /\ next = 0 /\ nextHandled = 0 /\ mutex4t = "free"

\* NewBundler of the inline-ticket Bundler.
NewBundler ==
  /\ bundle = <<>> /\ size = 0
  /\ timerRunning = FALSE /\ timer = "nil" /\ timerC = 0
  /\ mutex = 0
  /\ sem = [init |-> FALSE, cur |-> 0, waiters |-> <<>>]

Init ==
  /\ sys \in {"ticket", "item", "inline"}
  /\ \E c \in Configs :
       /\ HandlerLimit = c.HandlerLimit
       /\ CountThreshold = c.CountThreshold
       /\ SizeThreshold = c.SizeThreshold
       /\ BundleSizeLimit = c.BundleSizeLimit
       /\ BufferSizeLimit = c.BufferSizeLimit
  /\ NewBundler
  /\ NewTicketer
  /\ ticketNil \in (IF sys = "item" THEN TicketFieldNil ELSE {FALSE})
  /\ th = [x \in Threads |-> IF x \in Producers THEN Idle ELSE Unborn]
  /\ disp = [k \in Tickets |-> "none"]
  /\ sealed = <<>>
  /\ started = <<>> /\ admitted = {}
  /\ nAdds = 0 /\ nItems = 0
  /\ crashed = "no"

\* ------------------------------------------------- the dispatch goroutine
\* Positions of the dispatch goroutine of a ticket:
\*   "acquire"    about to call acquire(ticket)
\*   "acq_wait"   asleep in cond.Wait inside acquire
\*   "acq_retry"  woken by a Broadcast, about to re-check the predicate
\*   "running"    acquire has returned and the handler runs
\*   "release"    the handler has returned and the credits are released;
\*                about to call release(ticket)
\*   "rel_deferLock"  inside Ticket.Release, blocked in its deferred Lock
\*   "done"       release has returned
HandlerCalled(k) == disp[k] \in {"running", "release", "rel_deferLock", "done"}
HandlerReturned(k) == disp[k] \in {"release", "rel_deferLock", "done"}

\* ============================================================ sys = "ticket"
\* The Ticket type of common/bundler/ticket.go.

\* Ticket.Next, called by a client that then starts the ticket's goroutine
\* (go func() { defer Release(ti); Acquire(ti); handle() }).
Ticket_Next ==
  /\ sys = "ticket" /\ Running
  /\ next < MaxTickets
  /\ disp' = [disp EXCEPT ![next] = "acquire"]
  /\ next' = next + 1
  /\ UNCHANGED <<cfgvars, bvars, tmvars, active, nextHandled, mutex4t, ticketNil,
                 hvars, mutex, sem, th, sealed, nAdds, nItems, crashed>>

\* Ticket.Acquire: from Lock to Unlock, or to cond.Wait. When it returns the
\* client's handler runs.
Ticket_Acquire(k) ==
  /\ UsesTicket /\ Running
  /\ disp[k] \in {"acquire", "acq_retry"}
  /\ mutex4t = "free"
  /\ IF disp[k] = "acquire" /\ k < nextHandled
     THEN /\ crashed' = "ticket: acquire: ticket arg too small"
          /\ UNCHANGED <<active, nextHandled, started, disp, th>>
     ELSE IF acquirePred(k, nextHandled, active)
     THEN /\ active' = active \cup {k}
          /\ nextHandled' = nextHandled + 1
          /\ started' = Append(started, k)
          /\ disp' = [BroadcastDisp(disp, nextHandled', active') EXCEPT ![k] = "running"]
          /\ th' = BroadcastTh(th, nextHandled', active')
          /\ UNCHANGED crashed
     ELSE /\ disp' = [disp EXCEPT ![k] = "acq_wait"]
          /\ UNCHANGED <<active, nextHandled, started, th, crashed>>
  /\ UNCHANGED <<cfgvars, bvars, tmvars, next, mutex4t, ticketNil, admitted,
                 mutex, sem, sealed, nAdds, nItems>>

\* The client's handler returns; its deferred Release is next. (The
\* dispatch goroutine of an Item-based Bundler releases credits here: see
\* Item_handle.)
Ticket_handle(k) ==
  /\ sys = "ticket" /\ Running
  /\ disp[k] = "running"
  /\ disp' = [disp EXCEPT ![k] = "release"]
  /\ UNCHANGED <<cfgvars, bvars, tmvars, tkvars, hvars, mutex, sem, th, sealed,
                 nAdds, nItems, crashed>>

\* Ticket.Release: Lock, delete, Broadcast, and then the deferred call, which
\* is t.mutex.Lock(): the goroutine blocks on the mutex it holds.
Ticket_Release(k) ==
  /\ UsesTicket /\ Running
  /\ disp[k] = "release"
  /\ mutex4t = "free"
  /\ IF k \notin active
     THEN /\ crashed' = "ticket: release: not an active ticket"
          /\ UNCHANGED <<active, disp, th, mutex4t>>
     ELSE /\ active' = active \ {k}
          /\ disp' = [BroadcastDisp(disp, nextHandled, active') EXCEPT ![k] = "rel_deferLock"]
          /\ th' = BroadcastTh(th, nextHandled, active')
          /\ mutex4t' = "locked"
          /\ UNCHANGED crashed
  /\ UNCHANGED <<cfgvars, bvars, tmvars, next, nextHandled, ticketNil, hvars,
                 mutex, sem, sealed, nAdds, nItems>>

\* Ticket.WhatIsNext, read by a client about to call WaitAll.
Ticket_WhatIsNext(p) ==
  /\ sys = "ticket" /\ Running
  /\ p \in Producers /\ th[p].pc = "idle"
  /\ th' = [th EXCEPT ![p] = [Idle EXCEPT !.pc = "waitAll", !.t = next]]
  /\ UNCHANGED <<cfgvars, bvars, tmvars, tkvars, hvars, mutex, sem, disp, sealed,
                 nAdds, nItems, crashed>>

\* Ticket.WaitAll(n): from Lock to Unlock, or to cond.Wait.
Ticket_WaitAll(x) ==
  /\ UsesTicket /\ Running
  /\ th[x].pc \in {"waitAll", "wa_retry"}
  /\ mutex4t = "free"
  /\ IF waitAllPred(th[x].t, nextHandled, active)
     THEN th' = [th EXCEPT ![x] = IF x \in Producers THEN Idle ELSE Unborn]
     ELSE th' = [th EXCEPT ![x].pc = "wa_wait"]
  /\ UNCHANGED <<cfgvars, bvars, tmvars, tkvars, hvars, mutex, sem, disp, sealed,
                 nAdds, nItems, crashed>>

NextTicket ==
  \/ Ticket_Next
  \/ \E k \in Tickets : Ticket_Acquire(k)
  \/ \E k \in Tickets : Ticket_handle(k)
  \/ \E k \in Tickets : Ticket_Release(k)
  \/ \E p \in Producers : Ticket_WhatIsNext(p)
  \/ \E x \in Threads : Ticket_WaitAll(x)

\* ===================================================== the weighted semaphore
\* golang.org/x/sync/semaphore as the Bundler uses it.

\* initSemOnce / initSemaphore: sem = NewWeighted(BufferSizeLimit), once.
initSemOnce(sm) == IF sm.init THEN sm ELSE [sm EXCEPT !.init = TRUE]

\* A faulty variant of SemFits: the credits left are not looked at.
SemFits_noCredit(sm, n) == sm.waiters = <<>>

\* TryAcquire(n) and the fast path of Acquire(ctx, n): the credits are free
\* and nobody is queued before the caller.
SemFits(sm, n) == BufferSizeLimit - sm.cur >= n /\ sm.waiters = <<>>

\* Release: notifyWaiters wakes the queued callers in FIFO order while the
\* credits of the first one fit. The result names the callers woken.
RECURSIVE notifyWaiters(_, _)
notifyWaiters(sm, woken) ==
  IF sm.waiters # <<>> /\ BufferSizeLimit - sm.cur >= Head(sm.waiters).n
  THEN notifyWaiters([sm EXCEPT !.cur = sm.cur + Head(sm.waiters).n,
                                !.waiters = Tail(sm.waiters)],
                     woken \cup {Head(sm.waiters).x})
  ELSE [sm |-> sm, woken |-> woken]

Grant(f, woken) ==
  [x \in DOMAIN f |-> IF x \in woken THEN [f[x] EXCEPT !.pc = "add_lock"] ELSE f[x]]

\* A faulty variant of creditsOf: one credit for each item of the bundle.
creditsOf_count(k) == Len(sealed[k + 1].items)

\* The credits the dispatch goroutine of ticket k gives back: the size
\* flushLocked read from b.size when it sealed the bundle.
creditsOf(k) == sealed[k + 1].size

\* The first timer goroutine not running.
FreeTimer == CHOOSE g \in Timers :
               th[g].pc = "unborn" /\ \A h \in Timers : th[h].pc = "unborn" => g <= h

\* A goroutine that has finished a public call: a producer is idle again, a
\* timer goroutine ends.
Finished(x) == IF x \in Producers THEN Idle ELSE Unborn

\* ============================================================ sys = "inline"
\* The Bundler with the inline ticketer (message.go lines 218-476).
\*
\* Positions of a producer or timer goroutine:
\*   "idle"        (producer) between two calls
\*   "unborn"      (timer goroutine) not running
\*   "select"      (timer goroutine) in its select on timer.C / timerCancel
\*   "Flush"       (timer goroutine) has taken timer.C, about to call Flush
\*   "sem_wait"    queued in sem.Acquire
\*   "add_lock"    holds its credits, about to lock b.mutex in add
\*   "add_append"  in add with b.mutex held, about to append
\*   "fl_entry"    with b.mutex held, about to run flushLocked
\*   "fl_send"     in flushLocked, blocked in the send on timerCancel
\*   "Flush_read"  in Flush after Unlock, about to read b.next
\*   "wa_wait"     asleep in cond.Wait inside waitAll(t)
\* ret is where the goroutine continues when flushLocked returns:
\*   "add_append"  the bundle size limit check of add called it
\*   "add_size"    the count check of add called it
\*   "add_unlock"  the size check of add called it
\*   "Flush"       Flush called it

\* A faulty variant of seal: b.bundle is not reset after the copy.
seal_keepsBundle ==
  IF Len(bundle) = 0
  THEN UNCHANGED <<bundle, size, next, disp, sealed>>
  ELSE /\ bundle' = bundle
       /\ size' = 0
       /\ sealed' = Append(sealed, [items |-> bundle, size |-> size])
       /\ next' = next + 1
       /\ disp' = [disp EXCEPT ![next] = "acquire"]

\* A faulty variant of seal: the ticket is taken without b.next++.
seal_sameTicket ==
  IF Len(bundle) = 0
  THEN UNCHANGED <<bundle, size, next, disp, sealed>>
  ELSE /\ bundle' = <<>>
       /\ size' = 0
       /\ sealed' = IF next = 0 THEN <<[items |-> bundle, size |-> size]>>
                    ELSE [sealed EXCEPT ![next] = [items |-> bundle, size |-> size]]
       /\ next' = IF next = 0 THEN 1 ELSE next
       /\ disp' = [disp EXCEPT ![next' - 1] = "acquire"]

\* flushLocked, after the timer has been dealt with: seal the bundle (copy
\* and clear it, take the next ticket, start the dispatch goroutine).
seal ==
  IF Len(bundle) = 0
  THEN UNCHANGED <<bundle, size, next, disp, sealed>>
  ELSE /\ bundle' = <<>>
       /\ size' = 0
       /\ sealed' = Append(sealed, [items |-> bundle, size |-> size])
       /\ next' = next + 1
       /\ disp' = [disp EXCEPT ![next] = "acquire"]

\* A faulty variant of TimerStop: the result of Stop is taken to be true.
TimerStop_always == TRUE

\* timer.Stop(): TRUE when the call stops the timer, FALSE when the timer
\* has already expired or been stopped.
TimerStop == timer = "armed"

\* The code that follows a call of flushLocked in its caller, up to the next
\* operation another goroutine can race with. f is th as the step leaves it
\* for the other goroutines.
\*   after the size limit check of add: on to the append;
\*   after the count check of add: the size check, and with nothing to
\*     flush the deferred Unlock, add and Add/AddWait return nil;
\*   after the size check of add: the deferred Unlock, and the return of nil;
\*   in Flush: b.mutex.Unlock().
flushLocked_return(x, ret, f) ==
  CASE ret = "add_append" ->
         /\ th' = [f EXCEPT ![x].pc = "add_append"]
         /\ mutex' = x
         /\ UNCHANGED admitted
    [] ret = "add_size" /\ size' >= SizeThreshold ->
         /\ th' = [f EXCEPT ![x].pc = "fl_entry", ![x].ret = "add_unlock"]
         /\ mutex' = x
         /\ UNCHANGED admitted
    [] ret = "add_size" /\ ~(size' >= SizeThreshold) ->
         /\ th' = [f EXCEPT ![x] = Idle]
         /\ mutex' = 0
         /\ admitted' = admitted \cup {th[x].id}
    [] ret = "add_unlock" ->
         /\ th' = [f EXCEPT ![x] = Idle]
         /\ mutex' = 0
         /\ admitted' = admitted \cup {th[x].id}
    [] ret = "Flush" ->
         /\ th' = [f EXCEPT ![x] = [Idle EXCEPT !.pc = "Flush_read"]]
         /\ mutex' = 0
         /\ UNCHANGED admitted

\* flushLocked, called by goroutine x with b.mutex held. With the timer
\* running and timer.Stop() true it blocks sending on timerCancel; otherwise
\* it clears timerRunning, seals and returns.
flushLocked(x, ret, f) ==
  IF timerRunning /\ TimerStop
  THEN /\ timer' = "stopped"
       /\ th' = [f EXCEPT ![x].pc = "fl_send", ![x].ret = ret]
       /\ mutex' = x
       /\ UNCHANGED <<bundle, size, next, disp, sealed, timerRunning, admitted>>
  ELSE /\ timerRunning' = FALSE
       /\ seal
       /\ UNCHANGED timer
       /\ flushLocked_return(x, ret, f)

\* A faulty variant of Add: the credits are taken before the check that
\* refuses the item, and are not given back.
Add_chargesRefused(p) ==
  /\ sys = "inline" /\ Running
  /\ p \in Producers /\ th[p].pc = "idle"
  /\ nAdds < MaxAdds
  /\ nAdds' = nAdds + 1
  /\ \E sz \in ItemSizes :
       IF BundleSizeLimit > 0 /\ sz > BundleSizeLimit
       THEN UNCHANGED <<th, sem>>
       ELSE IF ~SemFits(initSemOnce(sem), sz)
       THEN /\ sem' = [initSemOnce(sem) EXCEPT !.cur = sem.cur + sz]
            /\ UNCHANGED th
       ELSE /\ th' = [th EXCEPT ![p] = [Idle EXCEPT !.pc = "add_lock", !.sz = sz]]
            /\ sem' = [initSemOnce(sem) EXCEPT !.cur = sem.cur + sz]
  /\ UNCHANGED <<cfgvars, bvars, tmvars, tkvars, hvars, mutex, disp, sealed,
                 nItems, crashed>>

\* Add(item, size): the oversize check, initSemOnce and TryAcquire.
Add(p) ==
  /\ sys = "inline" /\ Running
  /\ p \in Producers /\ th[p].pc = "idle"
  /\ nAdds < MaxAdds
  /\ nAdds' = nAdds + 1
  /\ \E sz \in ItemSizes :
       IF BundleSizeLimit > 0 /\ sz > BundleSizeLimit
       THEN UNCHANGED <<th, sem>>
       ELSE IF ~SemFits(initSemOnce(sem), sz)
       THEN /\ sem' = initSemOnce(sem)
            /\ UNCHANGED th
       ELSE /\ th' = [th EXCEPT ![p] = [Idle EXCEPT !.pc = "add_lock", !.sz = sz]]
            /\ sem' = [initSemOnce(sem) EXCEPT !.cur = sem.cur + sz]
  /\ UNCHANGED <<cfgvars, bvars, tmvars, tkvars, hvars, mutex, disp, sealed,
                 nItems, crashed>>

\* AddWait(ctx, item, size): the oversize check, initSemOnce and Acquire, which
\* takes the credits or queues the caller (a caller asking for more than the
\* semaphore holds is not queued and waits for ctx alone).
AddWait(p) ==
  /\ sys = "inline" /\ Running
  /\ p \in Producers /\ th[p].pc = "idle"
  /\ nAdds < MaxAdds
  /\ nAdds' = nAdds + 1
  /\ \E sz \in ItemSizes :
       IF BundleSizeLimit > 0 /\ sz > BundleSizeLimit
       THEN UNCHANGED <<th, sem>>
       ELSE IF SemFits(initSemOnce(sem), sz)
       THEN /\ th' = [th EXCEPT ![p] = [Idle EXCEPT !.pc = "add_lock", !.sz = sz]]
            /\ sem' = [initSemOnce(sem) EXCEPT !.cur = sem.cur + sz]
       ELSE /\ th' = [th EXCEPT ![p] = [Idle EXCEPT !.pc = "sem_wait", !.sz = sz]]
            /\ sem' = IF sz > BufferSizeLimit
                      THEN initSemOnce(sem)
                      ELSE [initSemOnce(sem) EXCEPT
                              !.waiters = Append(sem.waiters, [x |-> p, n |-> sz])]
  /\ UNCHANGED <<cfgvars, bvars, tmvars, tkvars, hvars, mutex, disp, sealed,
                 nItems, crashed>>

\* AddWait, ctx done while Acquire waits: the caller leaves the queue (the
\* semaphore then wakes the callers that fit) and AddWait returns ctx.Err().
AddWait_cancel(p) ==
  /\ sys = "inline" /\ Running
  /\ th[p].pc = "sem_wait"
  /\ LET rest == SelectSeq(sem.waiters, LAMBDA w : w.x # p)
         r == notifyWaiters([sem EXCEPT !.waiters = rest], {})
     IN /\ sem' = r.sm
        /\ th' = [Grant(th, r.woken) EXCEPT ![p] = Idle]
  /\ UNCHANGED <<cfgvars, bvars, tmvars, tkvars, hvars, mutex, disp, sealed,
                 nAdds, nItems, crashed>>

\* A faulty variant of overLimit: the size of the incoming item is left out.
overLimit_current(sz) == BundleSizeLimit > 0 /\ size > BundleSizeLimit

\* add: would the item take the current bundle over the bundle size limit?
overLimit(sz) == BundleSizeLimit > 0 /\ size + sz > BundleSizeLimit

\* A faulty variant of appendItem: the item goes in front.
appendItem_front(b, it) == <<it>> \o b

\* add: b.bundle = append(b.bundle, item).
appendItem(b, it) == Append(b, it)

\* A faulty variant of countReached: the threshold itself does not count.
countReached_above(n) == n > CountThreshold

\* A faulty variant of needsTimer: the timer is set only when it is created.
needsTimer_firstOnly == timer = "nil"

\* add, "set timer to call Flush()": the timer is reset and its goroutine
\* started when timerRunning is false.
needsTimer == ~timerRunning

\* add: the count check of the inline-ticket Bundler, on a bundle of n items.
countReached(n) == n = CountThreshold

\* add: b.mutex.Lock() and the bundle size limit check, with the flushLocked
\* it may call.
add_lock(x) ==
  /\ sys = "inline" /\ Running
  /\ th[x].pc = "add_lock"
  /\ mutex = 0
  /\ IF overLimit(th[x].sz)
     THEN flushLocked(x, "add_append", th)
     ELSE /\ th' = [th EXCEPT ![x].pc = "add_append"]
          /\ mutex' = x
          /\ UNCHANGED <<bundle, size, timerRunning, timer, next, disp, sealed,
                         admitted>>
  /\ UNCHANGED <<cfgvars, timerC, active, nextHandled, mutex4t, ticketNil,
                 started, sem, nAdds, nItems, crashed>>

\* add: append the item, arm the timer if it is not running (starting its
\* goroutine), and the count and size checks; with nothing to flush, the
\* deferred Unlock follows and Add/AddWait return nil.
add_append(x) ==
  /\ sys = "inline" /\ Running
  /\ th[x].pc = "add_append"
  /\ bundle' = appendItem(bundle, [id |-> nItems + 1, sz |-> th[x].sz])
  /\ nItems' = nItems + 1
  /\ size' = size + th[x].sz
  /\ timerRunning' = TRUE
  /\ timer' = IF needsTimer THEN "armed" ELSE timer
  /\ LET spawned == IF needsTimer
                    THEN [th EXCEPT ![FreeTimer].pc = "select"] ELSE th
     IN IF countReached(Len(bundle'))
        THEN /\ th' = [spawned EXCEPT ![x].pc = "fl_entry", ![x].ret = "add_size",
                                      ![x].id = nItems + 1]
             /\ UNCHANGED <<mutex, admitted>>
        ELSE IF size' >= SizeThreshold
        THEN /\ th' = [spawned EXCEPT ![x].pc = "fl_entry", ![x].ret = "add_unlock",
                                      ![x].id = nItems + 1]
             /\ UNCHANGED <<mutex, admitted>>
        ELSE /\ th' = [spawned EXCEPT ![x] = Idle]
             /\ mutex' = 0
             /\ admitted' = admitted \cup {nItems + 1}
  /\ UNCHANGED <<cfgvars, timerC, tkvars, started, sem, disp, sealed, nAdds,
                 crashed>>

\* add: the flushLocked that its count check or its size check calls.
add_flush(x) ==
  /\ sys = "inline" /\ Running
  /\ th[x].pc = "fl_entry"
  /\ flushLocked(x, th[x].ret, th)
  /\ UNCHANGED <<cfgvars, timerC, active, nextHandled, mutex4t, ticketNil,
                 started, sem, nAdds, nItems, crashed>>

\* The rendezvous on timerCancel: flushLocked sends, a timer goroutine in its
\* select receives and ends; flushLocked then clears timerRunning, seals and
\* returns.
flushLocked_send(x, g) ==
  /\ sys = "inline" /\ Running
  /\ th[x].pc = "fl_send"
  /\ th[g].pc = "select"
  /\ timerRunning' = FALSE
  /\ seal
  /\ flushLocked_return(x, th[x].ret, [th EXCEPT ![g] = Unborn])
  /\ UNCHANGED <<cfgvars, tmvars, active, nextHandled, mutex4t, ticketNil,
                 started, sem, nAdds, nItems, crashed>>

\* The timer expires: a non-blocking send on timer.C, whose buffer holds one.
TimerFire ==
  /\ sys # "ticket" /\ Running
  /\ timer = "armed"
  /\ timer' = "expired"
  /\ timerC' = 1
  /\ UNCHANGED <<cfgvars, bvars, tkvars, hvars, mutex, sem, th, disp, sealed,
                 nAdds, nItems, crashed>>

\* The timer goroutine's select takes <-b.timer.C; it goes on to b.Flush().
timer_recv(g) ==
  /\ sys # "ticket" /\ Running
  /\ th[g].pc = "select"
  /\ timerC = 1
  /\ timerC' = 0
  /\ th' = [th EXCEPT ![g].pc = "Flush"]
  /\ UNCHANGED <<cfgvars, bvars, timer, tkvars, hvars, mutex, sem, disp, sealed,
                 nAdds, nItems, crashed>>

\* Flush, by a producer or by a timer goroutine: b.mutex.Lock(), flushLocked
\* and, when that returns, b.mutex.Unlock().
Flush(x) ==
  /\ sys = "inline" /\ Running
  /\ \/ x \in Producers /\ th[x].pc = "idle"
     \/ x \in Timers /\ th[x].pc = "Flush"
  /\ mutex = 0
  /\ flushLocked(x, "Flush", th)
  /\ UNCHANGED <<cfgvars, timerC, active, nextHandled, mutex4t, ticketNil,
                 started, sem, nAdds, nItems, crashed>>

\* Flush after its Unlock: t := b.next, initSemOnce and waitAll(t), up to its
\* return or to its cond4t.Wait.
\* b.next is read without any lock while other goroutines may be
\* incrementing it under b.mutex. The read returns one of the values written
\* since this goroutine's own critical section: each of them is the value of
\* next at some moment after the Unlock, and this step takes place at any
\* such moment. The predicate of waitAll(t), once true, stays true, so
\* checking it at the moment of the read loses nothing.
Flush_waitAll(x) ==
  /\ sys = "inline" /\ Running
  /\ th[x].pc = "Flush_read"
  /\ mutex4t = "free"
  /\ IF waitAllPred(next, nextHandled, active)
     THEN th' = [th EXCEPT ![x] = Finished(x)]
     ELSE th' = [th EXCEPT ![x].pc = "wa_wait", ![x].t = next]
  /\ sem' = initSemOnce(sem)
  /\ UNCHANGED <<cfgvars, bvars, tmvars, tkvars, hvars, mutex, disp, sealed,
                 nAdds, nItems, crashed>>

\* cond4t.Broadcast as the goroutines asleep in waitAll see it: a waiter
\* whose predicate now holds takes the ticketer's mutex (free as soon as the
\* broadcasting call returns), finds the predicate true and returns from
\* waitAll and from Flush, touching nothing shared.
waitAll_wake(f, nh, act) ==
  [x \in DOMAIN f |->
     IF f[x].pc = "wa_wait" /\ waitAllPred(f[x].t, nh, act)
     THEN Finished(x) ELSE f[x]]

\* acquire(ticket): from Lock to Unlock, or to cond4t.Wait. When it returns
\* the dispatch goroutine calls b.handler(bundle).
acquire(k) ==
  /\ sys = "inline" /\ Running
  /\ disp[k] \in {"acquire", "acq_retry"}
  /\ mutex4t = "free"
  /\ IF disp[k] = "acquire" /\ k < nextHandled
     THEN /\ crashed' = "ticket: acquire: ticket arg too small"
          /\ UNCHANGED <<active, nextHandled, started, disp, th>>
     ELSE IF acquirePred(k, nextHandled, active)
     THEN /\ active' = active \cup {k}
          /\ nextHandled' = nextHandled + 1
          /\ started' = Append(started, k)
          /\ disp' = [BroadcastDisp(disp, nextHandled', active') EXCEPT ![k] = "running"]
          /\ th' = waitAll_wake(th, nextHandled', active')
          /\ UNCHANGED crashed
     ELSE /\ disp' = [disp EXCEPT ![k] = "acq_wait"]
          /\ UNCHANGED <<active, nextHandled, started, th, crashed>>
  /\ UNCHANGED <<cfgvars, bvars, tmvars, next, mutex4t, ticketNil, admitted,
                 mutex, sem, sealed, nAdds, nItems>>

\* The handler returns and the deferred function of the dispatch goroutine
\* starts: b.sem.Release(size) ...
handler_return(k) ==
  /\ sys = "inline" /\ Running
  /\ disp[k] = "running"
  /\ LET r == notifyWaiters([sem EXCEPT !.cur = sem.cur - creditsOf(k)], {})
     IN /\ sem' = r.sm
        /\ th' = Grant(th, r.woken)
  /\ disp' = [disp EXCEPT ![k] = "release"]
  /\ UNCHANGED <<cfgvars, bvars, tmvars, tkvars, hvars, mutex, sealed, nAdds,
                 nItems, crashed>>

\* ... and b.release(ticket): Lock, delete, Broadcast, Unlock.
release(k) ==
  /\ sys = "inline" /\ Running
  /\ disp[k] = "release"
  /\ mutex4t = "free"
  /\ IF k \notin active
     THEN /\ crashed' = "ticket: release: not an active ticket"
          /\ UNCHANGED <<active, disp, th>>
     ELSE /\ active' = active \ {k}
          /\ disp' = [BroadcastDisp(disp, nextHandled, active') EXCEPT ![k] = "done"]
          /\ th' = waitAll_wake(th, nextHandled, active')
          /\ UNCHANGED crashed
  /\ UNCHANGED <<cfgvars, bvars, tmvars, next, nextHandled, mutex4t, ticketNil,
                 hvars, mutex, sem, sealed, nAdds, nItems>>

NextInline ==
  \/ \E p \in Producers : Add(p)
  \/ \E p \in Producers : AddWait(p)
  \/ \E p \in Producers : AddWait_cancel(p)
  \/ \E x \in Threads : add_lock(x)
  \/ \E x \in Threads : add_append(x)
  \/ \E x \in Threads : add_flush(x)
  \/ \E x \in Threads, g \in Timers : flushLocked_send(x, g)
  \/ \E x \in Threads : Flush(x)
  \/ \E x \in Threads : Flush_waitAll(x)
  \/ \E k \in Tickets : acquire(k)
  \/ \E k \in Tickets : handler_return(k)
  \/ \E k \in Tickets : release(k)

\* ============================================================== sys = "item"
\* The Item-based Bundler (message.go lines 18-216). NewBundler leaves the
\* field ticket nil and nothing in the package assigns it, so the first
\* method call on b.ticket panics with a nil pointer dereference; no
\* goroutine recovers, and the panic ends the process.

\* flushLocked from "clear items" on: with items to seal, b.ticket.Next()
\* dereferences a nil ticket; with a Ticket it issues the next ticket and the
\* dispatch goroutine starts.
Item_seal ==
  IF Len(bundle) = 0
  THEN UNCHANGED <<bundle, size, next, disp, sealed, crashed>>
  ELSE /\ bundle' = <<>>
       /\ size' = 0
       /\ IF ticketNil
          THEN /\ crashed' = "nil pointer dereference: b.ticket.Next"
               /\ UNCHANGED <<next, disp, sealed>>
          ELSE /\ sealed' = Append(sealed, [items |-> bundle, size |-> size])
               /\ next' = next + 1
               /\ disp' = [disp EXCEPT ![next] = "acquire"]
               /\ UNCHANGED crashed

\* The code that follows a call of flushLocked in its caller (as for the
\* inline Bundler). After a panic only the deferred Unlock of add runs;
\* Flush does not defer its Unlock.
Item_flushLocked_return(x, ret, f) ==
  CASE crashed' # "no" ->
         /\ th' = f
         /\ mutex' = IF ret = "Flush" THEN x ELSE 0
         /\ UNCHANGED admitted
    [] crashed' = "no" /\ ret = "add_append" ->
         /\ th' = [f EXCEPT ![x].pc = "add_append"]
         /\ mutex' = x
         /\ UNCHANGED admitted
    [] crashed' = "no" /\ ret = "add_size" /\ size' >= SizeThreshold ->
         /\ th' = [f EXCEPT ![x].pc = "fl_entry", ![x].ret = "add_unlock"]
         /\ mutex' = x
         /\ UNCHANGED admitted
    [] crashed' = "no" /\ ret = "add_size" /\ ~(size' >= SizeThreshold) ->
         /\ th' = [f EXCEPT ![x] = Idle]
         /\ mutex' = 0
         /\ admitted' = admitted \cup {th[x].id}
    [] crashed' = "no" /\ ret = "add_unlock" ->
         /\ th' = [f EXCEPT ![x] = Idle]
         /\ mutex' = 0
         /\ admitted' = admitted \cup {th[x].id}
    [] crashed' = "no" /\ ret = "Flush" ->
         /\ th' = [f EXCEPT ![x] = [Idle EXCEPT !.pc = "Flush_read"]]
         /\ mutex' = 0
         /\ UNCHANGED admitted

\* flushLocked, called by goroutine x with b.mutex held. With the timer
\* running it stops the timer and sends on timerCancel whatever Stop
\* returned; otherwise it seals and returns.
Item_flushLocked(x, ret, f) ==
  IF timerRunning
  THEN /\ timer' = IF timer = "armed" THEN "stopped" ELSE timer
       /\ th' = [f EXCEPT ![x].pc = "fl_send", ![x].ret = ret]
       /\ mutex' = x
       /\ UNCHANGED <<bundle, size, next, disp, sealed, timerRunning, admitted,
                      crashed>>
  ELSE /\ Item_seal
       /\ UNCHANGED <<timer, timerRunning>>
       /\ Item_flushLocked_return(x, ret, f)

\* TryAdd(item): the oversize check, initSemaphore and TryAcquire.
Item_TryAdd(p) ==
  /\ sys = "item" /\ Running
  /\ p \in Producers /\ th[p].pc = "idle"
  /\ nAdds < MaxAdds
  /\ nAdds' = nAdds + 1
  /\ \E sz \in ItemSizes :
       IF BundleSizeLimit > 0 /\ sz > BundleSizeLimit
       THEN UNCHANGED <<th, sem>>
       ELSE IF ~SemFits(initSemOnce(sem), sz)
       THEN /\ sem' = initSemOnce(sem)
            /\ UNCHANGED th
       ELSE /\ th' = [th EXCEPT ![p] = [Idle EXCEPT !.pc = "add_lock", !.sz = sz]]
            /\ sem' = [initSemOnce(sem) EXCEPT !.cur = sem.cur + sz]
  /\ UNCHANGED <<cfgvars, bvars, tmvars, tkvars, hvars, mutex, disp, sealed,
                 nItems, crashed>>

\* Add(ctx, item): the oversize check, initSemaphore and Acquire.
Item_Add(p) ==
  /\ sys = "item" /\ Running
  /\ p \in Producers /\ th[p].pc = "idle"
  /\ nAdds < MaxAdds
  /\ nAdds' = nAdds + 1
  /\ \E sz \in ItemSizes :
       IF BundleSizeLimit > 0 /\ sz > BundleSizeLimit
       THEN UNCHANGED <<th, sem>>
       ELSE IF SemFits(initSemOnce(sem), sz)
       THEN /\ th' = [th EXCEPT ![p] = [Idle EXCEPT !.pc = "add_lock", !.sz = sz]]
            /\ sem' = [initSemOnce(sem) EXCEPT !.cur = sem.cur + sz]
       ELSE /\ th' = [th EXCEPT ![p] = [Idle EXCEPT !.pc = "sem_wait", !.sz = sz]]
            /\ sem' = IF sz > BufferSizeLimit
                      THEN initSemOnce(sem)
                      ELSE [initSemOnce(sem) EXCEPT
                              !.waiters = Append(sem.waiters, [x |-> p, n |-> sz])]
  /\ UNCHANGED <<cfgvars, bvars, tmvars, tkvars, hvars, mutex, disp, sealed,
                 nItems, crashed>>

\* Add(ctx, item), ctx done while Acquire waits: Add returns ctx.Err().
Item_Add_cancel(p) ==
  /\ sys = "item" /\ Running
  /\ th[p].pc = "sem_wait"
  /\ LET rest == SelectSeq(sem.waiters, LAMBDA w : w.x # p)
         r == notifyWaiters([sem EXCEPT !.waiters = rest], {})
     IN /\ sem' = r.sm
        /\ th' = [Grant(th, r.woken) EXCEPT ![p] = Idle]
  /\ UNCHANGED <<cfgvars, bvars, tmvars, tkvars, hvars, mutex, disp, sealed,
                 nAdds, nItems, crashed>>

\* add: b.mutex.Lock() and the bundle size limit check, with the flushLocked
\* it may call.
Item_add_lock(x) ==
  /\ sys = "item" /\ Running
  /\ th[x].pc = "add_lock"
  /\ mutex = 0
  /\ IF overLimit(th[x].sz)
     THEN Item_flushLocked(x, "add_append", th)
     ELSE /\ th' = [th EXCEPT ![x].pc = "add_append"]
          /\ mutex' = x
          /\ UNCHANGED <<bundle, size, timerRunning, timer, next, disp, sealed,
                         admitted, crashed>>
  /\ UNCHANGED <<cfgvars, timerC, active, nextHandled, mutex4t, ticketNil,
                 started, sem, nAdds, nItems>>

\* add: append the item, arm the timer if it is not running (starting its
\* goroutine), and the count and size checks; with nothing to flush, the
\* deferred Unlock follows and TryAdd/Add return nil.
Item_add_append(x) ==
  /\ sys = "item" /\ Running
  /\ th[x].pc = "add_append"
  /\ bundle' = Append(bundle, [id |-> nItems + 1, sz |-> th[x].sz])
  /\ nItems' = nItems + 1
  /\ size' = size + th[x].sz
  /\ timerRunning' = TRUE
  /\ timer' = IF timerRunning THEN timer ELSE "armed"
  /\ LET spawned == IF timerRunning THEN th
                    ELSE [th EXCEPT ![FreeTimer].pc = "select"]
     IN IF Len(bundle') >= CountThreshold
        THEN /\ th' = [spawned EXCEPT ![x].pc = "fl_entry", ![x].ret = "add_size",
                                      ![x].id = nItems + 1]
             /\ UNCHANGED <<mutex, admitted>>
        ELSE IF size' >= SizeThreshold
        THEN /\ th' = [spawned EXCEPT ![x].pc = "fl_entry", ![x].ret = "add_unlock",
                                      ![x].id = nItems + 1]
             /\ UNCHANGED <<mutex, admitted>>
        ELSE /\ th' = [spawned EXCEPT ![x] = Idle]
             /\ mutex' = 0
             /\ admitted' = admitted \cup {nItems + 1}
  /\ UNCHANGED <<cfgvars, timerC, tkvars, started, sem, disp, sealed, nAdds,
                 crashed>>

\* add: the flushLocked that its count check or its size check calls.
Item_add_flush(x) ==
  /\ sys = "item" /\ Running
  /\ th[x].pc = "fl_entry"
  /\ Item_flushLocked(x, th[x].ret, th)
  /\ UNCHANGED <<cfgvars, timerC, active, nextHandled, mutex4t, ticketNil,
                 started, sem, nAdds, nItems>>

\* The rendezvous on timerCancel: flushLocked sends, a timer goroutine in its
\* select receives and ends; flushLocked then clears timerRunning and goes
\* on to seal.
Item_flushLocked_send(x, g) ==
  /\ sys = "item" /\ Running
  /\ th[x].pc = "fl_send"
  /\ th[g].pc = "select"
  /\ timerRunning' = FALSE
  /\ Item_seal
  /\ Item_flushLocked_return(x, th[x].ret, [th EXCEPT ![g] = Unborn])
  /\ UNCHANGED <<cfgvars, tmvars, active, nextHandled, mutex4t, ticketNil,
                 started, sem, nAdds, nItems>>

\* Flush, by a producer or by a timer goroutine: b.mutex.Lock(), flushLocked
\* and, when that returns, b.mutex.Unlock().
Item_Flush(x) ==
  /\ sys = "item" /\ Running
  /\ \/ x \in Producers /\ th[x].pc = "idle"
     \/ x \in Timers /\ th[x].pc = "Flush"
  /\ mutex = 0
  /\ Item_flushLocked(x, "Flush", th)
  /\ UNCHANGED <<cfgvars, timerC, active, nextHandled, mutex4t, ticketNil,
                 started, sem, nAdds, nItems>>

\* Flush after its Unlock: ti := b.ticket.WhatIsNext(), which dereferences
\* a nil ticket, and initSemaphore; b.ticket.WaitAll(ti) is next.
Item_Flush_WhatIsNext(x) ==
  /\ sys = "item" /\ Running
  /\ th[x].pc = "Flush_read"
  /\ IF ticketNil
     THEN /\ crashed' = "nil pointer dereference: b.ticket.WhatIsNext"
          /\ UNCHANGED <<th, sem>>
     ELSE /\ th' = [th EXCEPT ![x].pc = "waitAll", ![x].t = next]
          /\ sem' = initSemOnce(sem)
          /\ UNCHANGED crashed
  /\ UNCHANGED <<cfgvars, bvars, tmvars, tkvars, hvars, mutex, disp, sealed,
                 nAdds, nItems>>

\* The dispatch goroutine of the Item-based Bundler: b.handle(items) returns
\* and the deferred function starts with b.sem.Release(size);
\* b.ticket.Release(ti) is next.
Item_handle(k) ==
  /\ sys = "item" /\ Running
  /\ disp[k] = "running"
  /\ LET r == notifyWaiters([sem EXCEPT !.cur = sem.cur - creditsOf(k)], {})
     IN /\ sem' = r.sm
        /\ th' = Grant(th, r.woken)
  /\ disp' = [disp EXCEPT ![k] = "release"]
  /\ UNCHANGED <<cfgvars, bvars, tmvars, tkvars, hvars, mutex, sealed, nAdds,
                 nItems, crashed>>

NextItem ==
  \/ \E p \in Producers : Item_TryAdd(p)
  \/ \E p \in Producers : Item_Add(p)
  \/ \E p \in Producers : Item_Add_cancel(p)
  \/ \E x \in Threads : Item_add_lock(x)
  \/ \E x \in Threads : Item_add_append(x)
  \/ \E x \in Threads : Item_add_flush(x)
  \/ \E x \in Threads, g \in Timers : Item_flushLocked_send(x, g)
  \/ \E x \in Threads : Item_Flush(x)
  \/ \E x \in Threads : Item_Flush_WhatIsNext(x)
  \/ \E k \in Tickets : Item_handle(k)

NextTimer ==
  \/ TimerFire
  \/ \E g \in Timers : timer_recv(g)

Next == NextTicket \/ NextInline \/ NextItem \/ NextTimer

Spec == Init /\ [][Next]_vars

\* The inline-ticket Bundler alone, under fair scheduling: every goroutine
\* that can take a step eventually takes it (the Go scheduler is fair and
\* sync.Mutex does not starve a waiter), handlers terminate, and an armed
\* timer eventually fires. Nothing obliges a producer to call Add, AddWait
\* or Flush, nor a context to be cancelled.
InitInline == Init /\ sys = "inline"

NextInlineTimer == NextInline \/ NextTimer

Fairness ==
  /\ WF_vars(\E x \in Threads : add_lock(x))
  /\ WF_vars(\E x \in Threads : add_append(x))
  /\ WF_vars(\E x \in Threads : add_flush(x))
  /\ WF_vars(\E x \in Threads, g \in Timers : flushLocked_send(x, g))
  /\ WF_vars(\E g \in Timers : Flush(g))
  /\ WF_vars(\E x \in Threads : Flush_waitAll(x))
  /\ WF_vars(\E k \in Tickets : acquire(k))
  /\ WF_vars(\E k \in Tickets : handler_return(k))
  /\ WF_vars(\E k \in Tickets : release(k))
  /\ WF_vars(TimerFire)
  /\ WF_vars(\E g \in Timers : timer_recv(g))

FairInline == InitInline /\ [][NextInlineTimer]_vars /\ Fairness

\* ================================================================ properties
InSelect == {g \in Timers : th[g].pc = "select"}
Issued == 0..(next - 1)

\* C1: in both ticketers, for any two issued tickets t1 < t2 the acquire of
\* t1 completes before the acquire of t2 completes: every ticket whose
\* acquire has completed is preceded, in the order of completion, by every
\* smaller ticket.
C1_AcquireInTicketOrder ==
  \A j \in 1..Len(started) :
    \A t1 \in 0..(started[j] - 1) : \E i \in 1..(j - 1) : started[i] = t1

\* A ticket that called acquire out of turn, slept, and was woken once the
\* acquire of the ticket before it had completed.
C1_Witness ==
  \E k \in Tickets : k >= 1 /\ disp[k] = "acq_retry" /\ Len(started) = k

\* C2: when a call of Flush (or of WaitAll(WhatIsNext())) returns, the
\* handler of every ticket below the value of next that the call read has
\* been invoked and has returned.
FlushReturns(x) ==
  /\ th[x].pc \in {"Flush_read", "wa_wait", "waitAll", "wa_retry"}
  /\ th'[x].pc \in {"idle", "unborn"}

ReadNext(x) == IF th[x].pc = "Flush_read" THEN next ELSE th[x].t

C2_FlushWaitsForHandlers ==
  [][\A x \in Threads :
       FlushReturns(x) =>
         \A k \in Tickets :
           k < ReadNext(x) => disp'[k] \in {"release", "rel_deferLock", "done"}]_vars

\* A Flush that has sealed and unlocked and is about to read next, every
\* ticket issued so far having had its handler return: it returns at once.
C2_Witness ==
  \E x \in Threads :
    /\ th[x].pc = "Flush_read"
    /\ next >= 2
    /\ waitAllPred(next, nextHandled, active)
    /\ \A k \in Issued : HandlerReturned(k)

\* C5: the number of tickets in active, and so the number of handler
\* invocations that have started and not returned, is at most HandlerLimit.
C5_ActiveWithinHandlerLimit ==
  /\ Cardinality(active) <= HandlerLimit
  /\ Cardinality({k \in Tickets : disp[k] = "running"}) <= HandlerLimit

\* A sealed bundle whose turn has come waits because HandlerLimit handlers run.
C5_Witness ==
  \E k \in Tickets :
    /\ disp[k] = "acq_wait" /\ k = nextHandled
    /\ Cardinality({j \in Tickets : disp[j] = "running"}) = HandlerLimit

\* C4: the sizes of the items in the current bundle plus the sizes of the
\* sealed bundles whose handler has not returned never exceed
\* BufferSizeLimit.
RECURSIVE InFlight(_)
InFlight(n) ==
  IF n = 0 THEN 0
  ELSE (IF HandlerReturned(n - 1) THEN 0 ELSE sealed[n].size) + InFlight(n - 1)

Buffered == SumSz(bundle) + InFlight(Len(sealed))

C4_BufferedWithinBufferSizeLimit ==
  sys = "inline" => Buffered <= BufferSizeLimit

\* The buffer is full: part of it is in the current bundle and the rest in
\* a sealed bundle whose handler is running.
C4_Witness ==
  /\ sys = "inline"
  /\ Buffered = BufferSizeLimit
  /\ bundle # <<>>
  /\ \E k \in Tickets : disp[k] = "running"
  /\ \A x \in Threads : th[x].pc \in {"idle", "unborn", "select"}

\* C6: with BundleSizeLimit > 0, whenever the bundler mutex is free the
\* recorded size of the current bundle is the sum of its items' sizes and is
\* at most BundleSizeLimit, and every sealed bundle has cumulative size at
\* most BundleSizeLimit.
C6_BundleWithinBundleSizeLimit ==
  BundleSizeLimit > 0 =>
    /\ mutex = 0 => size = SumSz(bundle) /\ size <= BundleSizeLimit
    /\ \A n \in 1..Len(sealed) :
         /\ sealed[n].size = SumSz(sealed[n].items)
         /\ sealed[n].size <= BundleSizeLimit

\* An item that would have taken the bundle over the limit made add flush
\* first: the earlier item was sealed alone, and the mutex is free again.
C6_Witness ==
  /\ mutex = 0
  /\ Len(sealed) = 2
  /\ sealed[1].size = 1 /\ sealed[2].size = BundleSizeLimit
  /\ \A x \in Threads : th[x].pc \in {"idle", "unborn"}
  /\ timer = "stopped" /\ timerC = 0

\* C9: in the inline-ticket Bundler every send on timerCancel finds a timer
\* goroutine in its select to receive it: flushLocked never blocks in the
\* send with b.mutex held and nobody to receive.
C9_CancelIsReceived ==
  sys = "inline" =>
    \A x \in Threads : th[x].pc = "fl_send" => InSelect # {}

\* flushLocked blocked in its send while timer.C holds an expiry left over
\* from an earlier arming, which a goroutine in the select may take instead.
C9_Witness ==
  /\ sys = "inline"
  /\ \E x \in Threads : th[x].pc = "fl_send"
  /\ timerC = 1

\* C7 (as stated; the code violates it): Ticket.Release removes the ticket
\* from active, broadcasts and returns with the ticketer mutex unlocked.
C7_ReleaseReturnsUnlocked ==
  sys = "ticket" =>
    \A k \in Tickets :
      (HandlerReturned(k) /\ k \notin active /\ k < nextHandled) =>
        (disp[k] = "done" /\ mutex4t = "free")

\* C8 (as stated; the code violates it): in the Item-based Bundler the Flush
\* of the timer goroutine whose timer has fired seals the bundle and
\* returns: it is not left in flushLocked sending on timerCancel with
\* b.mutex held and no goroutine in the select.
C8_TimerFlushReturns ==
  sys = "item" =>
    \A g \in Timers : th[g].pc = "fl_send" => InSelect # {}

\* C10 (as stated; the code violates it): in the inline-ticket Bundler at
\* most one timer goroutine is in its select, and none is when the bundler
\* is idle (current bundle empty, timerRunning false).
C10_OneTimerGoroutine ==
  sys = "inline" =>
    /\ Cardinality(InSelect) <= 1
    /\ (bundle = <<>> /\ ~timerRunning /\ mutex = 0) => InSelect = {}

\* C3: no admitted item is lost or duplicated. An item is never in two
\* places (the current bundle, a sealed bundle), and under fair scheduling
\* every item whose Add or AddWait returned nil is eventually in exactly one
\* batch passed to the handler, the lengths of the batches passed adding up
\* to the number of successful admissions.
Batches(i) == {k \in Issued : i \in Ids(sealed[k + 1].items)}

NoDuplicate ==
  /\ Cardinality(Ids(bundle)) = Len(bundle)
  /\ \A n \in 1..Len(sealed) : Cardinality(Ids(sealed[n].items)) = Len(sealed[n].items)
  /\ \A i \in 1..nItems :
       Cardinality(Batches(i)) + (IF i \in Ids(bundle) THEN 1 ELSE 0) <= 1

RECURSIVE HandledLen(_)
HandledLen(n) ==
  IF n = 0 THEN 0
  ELSE (IF HandlerCalled(n - 1) THEN Len(sealed[n].items) ELSE 0) + HandledLen(n - 1)

Delivered ==
  /\ \A i \in admitted : \E k \in Batches(i) : HandlerCalled(k)
  /\ HandledLen(Len(sealed)) = Cardinality(admitted)

C3_NoItemLostOrDuplicated == []NoDuplicate /\ <>[]Delivered

\* Two admitted items, delivered in two batches.
C3_Witness ==
  /\ admitted = {1, 2}
  /\ Len(sealed) = 2
  /\ Delivered

\* ------------------------------------------------- storage of the sequences
\* The Item-based NewBundler gives itemsZero a backing array of capacity
\* (DefaultCountTreshold+1)>>1 and flushLocked sets b.items = b.itemsZero
\* after every seal, so b.items always starts on that array and append writes
\* the i-th item of a bundle into its i-th slot while the bundle fits the
\* capacity (beyond it append moves the bundle to an array of its own). The
\* slice a seal hands to the dispatch goroutine is the bundle's slice header:
\* the same array. (bundleZero of the inline-ticket Bundler has capacity 0:
\* every bundle gets an array of its own.)
DefaultCountTreshold == 10

itemsZeroCap == (DefaultCountTreshold + 1) \div 2

\* Every bundle so far, sealed ones in ticket order and then the current one.
AllBundles ==
  [n \in 1..(Len(sealed) + 1) |-> IF n <= Len(sealed) THEN sealed[n].items ELSE bundle]

\* What slot i of the array of itemsZero holds: the i-th item of the latest
\* bundle that has one.
itemsZeroSlot(i) ==
  LET w == {n \in DOMAIN AllBundles : Len(AllBundles[n]) >= i}
      last == CHOOSE n \in w : \A m \in w : m <= n
  IN AllBundles[last][i]

\* What the handler of ticket k reads in the sequence it was given.
Observed(k) ==
  LET its == sealed[k + 1].items
  IN IF sys = "item" /\ Len(its) <= itemsZeroCap
     THEN [i \in 1..Len(its) |-> itemsZeroSlot(i)]
     ELSE its

Refused == nAdds' = nAdds + 1 /\ th' = th

C12_RefusedAdmissionHasNoEffect ==
  [][Refused =>
       /\ sem'.cur = sem.cur /\ sem'.waiters = sem.waiters
       /\ UNCHANGED <<bundle, size, timerRunning, timer, timerC, mutex>>
       /\ UNCHANGED <<next, disp, sealed, admitted, nItems>>]_vars

\* One item has been admitted and still holds its credits, a further call
\* has been refused, and every caller is idle again.
C12_Witness ==
  /\ sys \in {"item", "inline"}
  /\ nAdds = 2 /\ nItems = 1 /\ admitted = {1}
  /\ sem.cur = 3 /\ sem.waiters = <<>>
  /\ \A p \in Producers : th[p].pc = "idle"

\* C13 (as stated; the code violates it): on a Bundler as the Item-based
\* NewBundler returns it, with no item ever submitted, Flush returns
\* normally: no call of Flush ends the process.
C13_FlushOnFreshBundlerReturns ==
  (sys = "item" /\ ticketNil /\ nAdds = 0) => crashed = "no"

\* C14: with a fixed CountThreshold k >= 1 the admission that brings the
\* current bundle to k items seals it within the same call of add: once an
\* admission has completed (the bundler mutex is free) the current bundle
\* holds fewer than k items, no sealed bundle holds more than k, and a
\* sealed batch lists its items in the order of their admission.
InAdmissionOrder(its) ==
  \A i, j \in 1..Len(its) : i < j => its[i].id < its[j].id

C14_CountThresholdSeals ==
  (sys \in {"item", "inline"} /\ CountThreshold >= 1) =>
    /\ mutex = 0 => Len(bundle) < CountThreshold
    /\ \A n \in 1..Len(sealed) :
         /\ Len(sealed[n].items) <= CountThreshold
         /\ InAdmissionOrder(sealed[n].items)

\* Two admissions of small items: the second brought the bundle to the
\* count threshold and add sealed both, in order, before unlocking.
C14_Witness ==
  /\ sys = "inline"
  /\ mutex = 0 /\ bundle = <<>>
  /\ Len(sealed) = 1
  /\ Len(sealed[1].items) = CountThreshold
  /\ admitted = {1, 2}

\* C15: in the inline-ticket Bundler the batches, concatenated in ticket
\* order and followed by the current bundle, list the items in the order in
\* which their add critical sections appended them (an item's id is its rank
\* in that order): no item is dropped, repeated or moved before an earlier
\* one, whichever check sealed the bundles.
RECURSIVE Concat(_)
Concat(n) == IF n = 0 THEN <<>> ELSE Concat(n - 1) \o sealed[n].items

C15_BatchesKeepAdmissionOrder ==
  sys = "inline" =>
    LET all == Concat(Len(sealed)) \o bundle
    IN /\ Len(all) = nItems
       /\ \A i \in 1..Len(all) : all[i].id = i

\* An item that would have taken the bundle over BundleSizeLimit: the earlier
\* item was sealed alone and the new one is the first of the next bundle.
C15_Witness ==
  /\ sys = "inline"
  /\ Len(sealed) = 1 /\ Len(sealed[1].items) = 1 /\ sealed[1].items[1].id = 1
  /\ Len(bundle) = 1 /\ bundle[1].id = 2
  /\ size + sealed[1].size > BundleSizeLimit

\* C16 (as stated; the code violates it): in the inline-ticket Bundler a
\* Flush made by a timer goroutine seals a bundle only if the timer armed for
\* that bundle has fired. (The timer is armed by the first item of a bundle
\* and stays "expired" from its firing until the next arming.)
TimerFlushSeals(g) ==
  /\ th[g].pc \in {"Flush", "fl_send"}
  /\ th'[g] # th[g]
  /\ next' = next + 1

C16_TimerFlushSealsItsOwnBundle ==
  [][\A g \in Timers :
       (sys = "inline" /\ TimerFlushSeals(g)) => timer = "expired"]_vars

\* C17: buffer credits are conserved. The credits taken from the semaphore
\* are those of the items of the current bundle, of the items of the sealed
\* bundles whose handler has not returned, and of the callers that hold
\* credits for an item not yet appended: a dispatch goroutine gives back the
\* sum of the credits of its bundle's items, once, at the return of its
\* handler. So with the current bundle empty, no sealed bundle in flight and
\* no add under way, all BufferSizeLimit credits are free.
HoldsCredits(x) ==
  \/ th[x].pc \in {"add_lock", "add_append"}
  \/ th[x].pc = "fl_send" /\ th[x].ret = "add_append"

RECURSIVE Pending(_)
Pending(S) ==
  IF S = {} THEN 0
  ELSE LET x == CHOOSE y \in S : TRUE
       IN (IF HoldsCredits(x) THEN th[x].sz ELSE 0) + Pending(S \ {x})

RECURSIVE Unreleased(_)
Unreleased(n) ==
  IF n = 0 THEN 0
  ELSE (IF HandlerReturned(n - 1) THEN 0 ELSE SumSz(sealed[n].items))
       + Unreleased(n - 1)

TicketerInv ==
  /\ nextHandled <= next
  /\ \A t \in active : t < nextHandled

TicketerStep ==
  /\ next' \in {next, next + 1}
  /\ nextHandled' \in {nextHandled, nextHandled + 1}
  /\ \A t \in active' \ active : t = nextHandled /\ nextHandled' = nextHandled + 1
  /\ nextHandled' = nextHandled + 1 => nextHandled \in active'

C18_TicketerState == []TicketerInv /\ [][TicketerStep]_vars

\* Both tickets have entered active in turn and the first has been released.
C18_Witness ==
  /\ next = 2
  /\ nextHandled = 2
  /\ active = {1}
  /\ disp[0] = "done"

\* C19 (as stated; the code violates it): the reads and the increments of
\* next exclude each other. A goroutine about to read b.next in Flush is
\* never concurrent with another goroutine that is inside flushLocked with a
\* bundle to seal, that is, about to execute b.next++.
ReadsNext(x) == th[x].pc = "Flush_read"

IncrementsNext(y) ==
  /\ mutex = y
  /\ th[y].pc \in {"fl_entry", "fl_send"}
  /\ bundle # <<>>

C19_NextAccessedUnderMutex4t ==
  sys = "inline" =>
    \A x, y \in Threads : (x # y /\ ReadsNext(x)) => ~IncrementsNext(y)

\* C20: through Add, AddWait, Flush and the timer the fatal paths of the
\* inline ticketer are not reached: no panic happens, a dispatch goroutine
\* about to call acquire has a ticket >= nextHandled, one about to call
\* release has its ticket in active, and one that has released is not in
\* active again.
C20_NoFatalTicketPath ==
  sys = "inline" =>
    /\ crashed = "no"
    /\ \A k \in Tickets :
         /\ disp[k] = "acquire" => k >= nextHandled
         /\ disp[k] = "release" => k \in active
         /\ disp[k] = "done" => k \notin active

\* The first dispatch goroutine has released its ticket and the second is
\* about to release its own.
C20_Witness ==
  /\ sys = "inline"
  /\ disp[0] = "done"
  /\ disp[1] = "release"
  /\ active = {1}

\* C21: in the inline-ticket Bundler, whenever b.mutex is free and the
\* current bundle is not empty, timerRunning is true, the timer is armed or
\* has fired, and a flush is pending: a timer goroutine is on its way to
\* Flush, or one is in its select with the timer still to fire or a fired
\* value waiting in timer.C.
FlushPending ==
  \/ \E g \in Timers : th[g].pc = "Flush"
  \/ /\ \E g \in Timers : th[g].pc = "select"
     /\ timer = "armed" \/ timerC = 1

FlushTriggerInv ==
  (sys = "inline" /\ mutex = 0 /\ bundle # <<>>) =>
    /\ timerRunning
    /\ timer \in {"armed", "expired"}
    /\ FlushPending

\* ... and so, with the goroutines scheduled fairly and the timer firing,
\* a non-empty current bundle is eventually sealed.
C21_BufferedItemHasFlushTrigger ==
  []FlushTriggerInv /\ ((sys = "inline" /\ bundle # <<>>) ~> (bundle = <<>>))

\* A second bundle is being filled after the first was sealed, and its
\* timer has fired.
C21_Witness ==
  /\ sys = "inline" /\ mutex = 0
  /\ bundle # <<>>
  /\ sealed # <<>>
  /\ timer = "expired"
  /\ \A p \in Producers : th[p].pc = "idle"

=============================================================================
